---- MODULE Spec2Model ----
(***************************************************************************)
(* Verification model of the CPython binding of StringZilla               *)
(* (src/python/lib.c): string views (Str), collections of string parts    *)
(* (Strs) in their consecutive and reordered layouts, the splitter, the   *)
(* layout converter, sub-range extraction and the permutation engine      *)
(* (sort / order / shuffle).                                               *)
(*                                                                         *)
(* Arrays of the C code are TLA+ sequences; the C index i is the TLA+      *)
(* index i + 1 (see At).  Pointers into the text are byte offsets from    *)
(* the first byte of the host buffer, which sits at address 0.            *)
(* Machine integers are scaled down: uint32_t has Bits32 bits and size_t  *)
(* has BitsSize bits, so that both widths and the 32/64-bit layout switch  *)
(* are within reach of exhaustive checking.                                *)
(***************************************************************************)
EXTENDS Integers, Sequences, FiniteSets, TLC

\* ------------------------------------------------------------------ bounds
MaxLen == 3        \* longest source text, in bytes
MaxSepLen == 2     \* longest separator, in bytes
Bits32 == 2        \* scaled width of uint32_t
BitsSize == 6      \* scaled width of size_t / Py_ssize_t

Bytes == {1, 2}    \* the byte values that occur in texts and separators
UINT32_MAX == 2^Bits32 - 1
UINT32_MOD == 2^Bits32
SIZE_MOD == 2^BitsSize
PY_SSIZE_T_MAX == 2^(BitsSize - 1) - 1
NULL == -1

\* ----------------------------------------------------------------- helpers
At(s, i) == s[i + 1]

Min(S) == CHOOSE x \in S : \A y \in S : x <= y

Max(S) == CHOOSE x \in S : \A y \in S : x >= y

SeqsUpTo(S, n) == UNION {[1..k -> S] : k \in 0..n}

RECURSIVE Concat(_)
Concat(ss) == IF ss = <<>> THEN <<>> ELSE Head(ss) \o Concat(Tail(ss))

Reverse(s) == [i \in 1..Len(s) |-> s[Len(s) + 1 - i]]

\* (size_t) conversion of a signed value
ToSize(x) == x % SIZE_MOD

\* Bytes of the buffer txt in [start, start + length)
BytesOf(txt, start, length) == [k \in 1..length |-> txt[start + k]]

\* ------------------------------------------------- external byte primitives
\* find(haystack, needle) -> address of the leftmost occurrence | not-found
sz_find(txt, h_start, h_length, needle) ==
    LET n == Len(needle)
        hits == {p \in h_start..(h_start + h_length - n) :
                    \A k \in 1..n : txt[p + k] = needle[k]}
    IN IF hits = {} THEN NULL ELSE Min(hits)

\* ------------------------------------------------------------- the splitter
\* The Strs object in its three layouts.  array_null tells that the pointer
\* to the offsets (or parts) array is NULL.  The fields of the union that a
\* layout does not use hold fixed values.
Consecutive32(count, separator_length, parent, start, end_offsets, end_offsets_null) ==
    [type |-> "STRS_CONSECUTIVE_32", count |-> count,
     separator_length |-> separator_length, parent |-> parent,
     start |-> start, end_offsets |-> end_offsets, parts |-> <<>>,
     array_null |-> end_offsets_null]

Consecutive64(count, separator_length, parent, start, end_offsets, end_offsets_null) ==
    [type |-> "STRS_CONSECUTIVE_64", count |-> count,
     separator_length |-> separator_length, parent |-> parent,
     start |-> start, end_offsets |-> end_offsets, parts |-> <<>>,
     array_null |-> end_offsets_null]

Reordered(count, parent, parts, parts_null) ==
    [type |-> "STRS_REORDERED", count |-> count,
     separator_length |-> 0, parent |-> parent,
     start |-> NULL, end_offsets |-> <<>>, parts |-> parts,
     array_null |-> parts_null]

\* The condition of the loop of Str_split_, strict at the end of the text:
\* a faulty variant that stops before the part that follows a last separator
split_continues_strict(last_start, t_length, offsets_count, maxsplit) ==
    last_start < t_length /\ offsets_count < ToSize(maxsplit)

\* The condition of the loop of Str_split_
split_continues(last_start, t_length, offsets_count, maxsplit) ==
    last_start <= t_length /\ offsets_count < ToSize(maxsplit)

\* A faulty variant of the loop of Str_split_ that does not free the old
\* offset buffer when realloc fails
RECURSIVE Str_split_loop_leaks(_, _, _, _, _, _, _, _)
Str_split_loop_leaks(txt, t_start, t_length, separator, maxsplit, failAt, last_start, st) ==
    IF ~(last_start <= t_length /\ Len(st.offsets) < ToSize(maxsplit))
    THEN [oom |-> FALSE, offsets |-> st.offsets, iterations |-> st.iterations,
          allocated |-> st.capacity > 0]
    ELSE
      LET match == sz_find(txt, t_start + last_start, t_length - last_start, separator)
          offset_in_remaining ==
              IF match # NULL THEN match - t_start - last_start
                              ELSE t_length - last_start
          grows == Len(st.offsets) >= st.capacity
          next_offset == last_start + offset_in_remaining
                         + Len(separator) * (IF match # NULL THEN 1 ELSE 0)
      IN IF grows /\ failAt = Len(st.offsets)
         THEN [oom |-> TRUE, offsets |-> <<>>, iterations |-> st.iterations,
               allocated |-> st.capacity > 0]
         ELSE Str_split_loop_leaks(txt, t_start, t_length, separator, maxsplit, failAt,
                             last_start + offset_in_remaining + Len(separator),
                             [offsets |-> Append(st.offsets,
                                                 IF t_length >= UINT32_MAX
                                                 THEN next_offset % SIZE_MOD
                                                 ELSE next_offset % UINT32_MOD),
                              capacity |-> IF grows THEN (st.capacity + 1) * 2
                                                    ELSE st.capacity,
                              iterations |-> st.iterations + 1])

\* The loop of Str_split_: one call is one evaluation of the loop condition
\* and, when it holds, one iteration.  failAt is the number of offsets
\* already stored when realloc fails (NULL: it never fails); the old buffer
\* is then freed.
RECURSIVE Str_split_loop(_, _, _, _, _, _, _, _)
Str_split_loop(txt, t_start, t_length, separator, maxsplit, failAt, last_start, st) ==
    IF ~split_continues(last_start, t_length, Len(st.offsets), maxsplit)
    THEN [oom |-> FALSE, offsets |-> st.offsets, iterations |-> st.iterations,
          allocated |-> st.capacity > 0]
    ELSE
      LET match == sz_find(txt, t_start + last_start, t_length - last_start, separator)
          offset_in_remaining ==
              IF match # NULL THEN match - t_start - last_start
                              ELSE t_length - last_start
          grows == Len(st.offsets) >= st.capacity
          capacity == IF grows THEN (st.capacity + 1) * 2 ELSE st.capacity
          will_continue == IF match # NULL THEN 1 ELSE 0
          next_offset == last_start + offset_in_remaining + Len(separator) * will_continue
          stored == IF t_length >= UINT32_MAX THEN next_offset % SIZE_MOD
                                              ELSE next_offset % UINT32_MOD
      IN IF grows /\ failAt = Len(st.offsets)
         THEN [oom |-> TRUE, offsets |-> <<>>, iterations |-> st.iterations,
               allocated |-> FALSE]
         ELSE Str_split_loop(txt, t_start, t_length, separator, maxsplit, failAt,
                             last_start + offset_in_remaining + Len(separator),
                             [offsets |-> Append(st.offsets, stored),
                              capacity |-> capacity,
                              iterations |-> st.iterations + 1])

\* A faulty variant of Str_split_ that records the separator length also
\* when the separators are kept in the parts
Str_split_trims_kept(parent, txt, t_start, t_length, separator, keepseparator, maxsplit, failAt) ==
    LET loop == Str_split_loop(txt, t_start, t_length, separator, maxsplit, failAt, 0,
                               [offsets |-> <<>>, capacity |-> 0, iterations |-> 0])
    IN [oom |-> loop.oom,
        iterations |-> loop.iterations,
        increfs |-> IF loop.oom THEN 0 ELSE 1,
        allocated |-> [result |-> ~loop.oom, offsets |-> loop.allocated],
        strs |-> IF t_length >= UINT32_MAX
                 THEN Consecutive64(Len(loop.offsets), Len(separator), parent,
                                    t_start, loop.offsets, loop.offsets = <<>>)
                 ELSE Consecutive32(Len(loop.offsets), Len(separator), parent,
                                    t_start, loop.offsets, loop.offsets = <<>>)]

\* Str_split_(parent, text, separator, keepseparator, maxsplit): the result
\* is [oom, strs]; strs is the returned collection when oom is FALSE.
\* increfs is the number of references the call took on parent; allocated
\* tells which of the blocks the call made, the Strs object and the offset
\* buffer, are still allocated when it returns.
Str_split_(parent, txt, t_start, t_length, separator, keepseparator, maxsplit, failAt) ==
    LET separator_length == IF keepseparator THEN 0 ELSE Len(separator)
        loop == Str_split_loop(txt, t_start, t_length, separator, maxsplit, failAt, 0,
                               [offsets |-> <<>>, capacity |-> 0, iterations |-> 0])
    IN [oom |-> loop.oom,
        iterations |-> loop.iterations,
        increfs |-> IF loop.oom THEN 0 ELSE 1,
        allocated |-> [result |-> ~loop.oom, offsets |-> loop.allocated],
        strs |-> IF t_length >= UINT32_MAX
                 THEN Consecutive64(Len(loop.offsets), separator_length, parent,
                                    t_start, loop.offsets, loop.offsets = <<>>)
                 ELSE Consecutive32(Len(loop.offsets), separator_length, parent,
                                    t_start, loop.offsets, loop.offsets = <<>>)]

\* --------------------------------------------------------- part accessors
\* The getters return the view [parent, start, length] of part i.
str_at_offset_consecutive_32bit(strs, i, count) ==
    LET start_offset == IF i = 0 THEN 0 ELSE At(strs.end_offsets, i - 1)
        end_offset == At(strs.end_offsets, i)
        trim == IF i + 1 # count THEN strs.separator_length ELSE 0
    IN [parent |-> strs.parent,
        start |-> strs.start + start_offset,
        length |-> (((end_offset - start_offset) % UINT32_MOD) - trim) % SIZE_MOD]

str_at_offset_consecutive_64bit(strs, i, count) ==
    LET start_offset == IF i = 0 THEN 0 ELSE At(strs.end_offsets, i - 1)
        end_offset == At(strs.end_offsets, i)
        trim == IF i + 1 # count THEN strs.separator_length ELSE 0
    IN [parent |-> strs.parent,
        start |-> strs.start + start_offset,
        length |-> (end_offset - start_offset - trim) % SIZE_MOD]

str_at_offset_reordered(strs, i, count) ==
    [parent |-> strs.parent,
     start |-> At(strs.parts, i).start,
     length |-> At(strs.parts, i).length]

str_at_offset_getter(strs, i, count) ==
    CASE strs.type = "STRS_CONSECUTIVE_32" -> str_at_offset_consecutive_32bit(strs, i, count)
      [] strs.type = "STRS_CONSECUTIVE_64" -> str_at_offset_consecutive_64bit(strs, i, count)
      [] strs.type = "STRS_REORDERED" -> str_at_offset_reordered(strs, i, count)

Strs_len(strs) == strs.count

\* ------------------------------------------------------- layout converter
\* prepare_strings_for_reordering(strs): [ok, strs, error].  alloc_ok tells
\* whether malloc of the new parts array returns a block.
RECURSIVE populate_new_parts(_, _, _, _)
populate_new_parts(strs, count, i, new_parts) ==
    IF ~(i < count) THEN new_parts
    ELSE LET got == str_at_offset_getter(strs, i, count)
         IN populate_new_parts(strs, count, i + 1,
                Append(new_parts, [start |-> got.start, length |-> got.length]))

\* A faulty variant of the converter that copies the parts with their
\* trailing separators
prepare_untrimmed(strs, alloc_ok) ==
    IF strs.type = "STRS_REORDERED"
    THEN [ok |-> TRUE, strs |-> strs, error |-> "none"]
    ELSE IF ~alloc_ok
    THEN [ok |-> FALSE, strs |-> strs, error |-> "MemoryError"]
    ELSE [ok |-> TRUE, error |-> "none",
          strs |-> Reordered(strs.count, strs.parent,
                             populate_new_parts([strs EXCEPT !.separator_length = 0],
                                                strs.count, 0, <<>>), FALSE)]

\* A faulty variant of the converter that allocates the parts array last:
\* when the allocation fails the collection is already tagged reordered and
\* its offsets are gone
prepare_reports_late(strs, alloc_ok) ==
    IF strs.type = "STRS_REORDERED"
    THEN [ok |-> TRUE, strs |-> strs, error |-> "none"]
    ELSE [ok |-> alloc_ok, error |-> IF alloc_ok THEN "none" ELSE "MemoryError",
          strs |-> Reordered(strs.count, strs.parent,
                             populate_new_parts(strs, strs.count, 0, <<>>), FALSE)]

prepare_strings_for_reordering(strs, alloc_ok) ==
    IF strs.type = "STRS_REORDERED"
    THEN [ok |-> TRUE, strs |-> strs, error |-> "none"]
    ELSE IF ~alloc_ok
    THEN [ok |-> FALSE, strs |-> strs, error |-> "MemoryError"]
    ELSE [ok |-> TRUE, error |-> "none",
          strs |-> Reordered(strs.count, strs.parent,
                             populate_new_parts(strs, strs.count, 0, <<>>), FALSE)]

\* --------------------------------------------------------- permutation engine
\* Three-way byte comparison of the sort primitive: lexicographic, the
\* shorter string is smaller on a common prefix.
LexLess(a, b) ==
    \E k \in 1..Len(b) :
        /\ \A m \in 1..(k - 1) : m <= Len(a) /\ a[m] = b[m]
        /\ (k > Len(a) \/ a[k] < b[k])

LexLessEq(a, b) == a = b \/ LexLess(a, b)

PartBytes(txt, part) == BytesOf(txt, part.start, part.length)

\* The sort primitive: fills order with a permutation of 0..count-1 such that
\* parts[order[0]] <= parts[order[1]] <= ...  It is a deterministic function
\* of the sequence; ties names the way it orders parts that compare equal
\* (stability is not guaranteed).  keys[i + 1] holds the bytes of part i.
sz_sort_keys(keys, ties) ==
    LET n == Len(keys)
        Before(i, j) ==
            \/ LexLess(keys[i + 1], keys[j + 1])
            \/ keys[i + 1] = keys[j + 1] /\ (IF ties = "low_first" THEN i < j ELSE i > j)
        Rank(j) == Cardinality({i \in 0..(n - 1) : Before(i, j)})
    IN [r \in 1..n |-> CHOOSE j \in 0..(n - 1) : Rank(j) = r - 1]

sz_sort(txt, parts, ties) ==
    sz_sort_keys([n \in 1..Len(parts) |-> PartBytes(txt, parts[n])], ties)

\* reverse_offsets(array, length): [crash, array].  The indices are size_t:
\* with length = 0 the loop starts at j = SIZE_MAX and swaps array[0] with
\* array[SIZE_MAX], outside the array.
RECURSIVE reverse_offsets_loop(_, _, _)
reverse_offsets_loop(array, i, j) ==
    IF ~(i < j) THEN [crash |-> FALSE, array |-> array]
    ELSE IF j >= Len(array) THEN [crash |-> TRUE, array |-> array]
    ELSE reverse_offsets_loop(
            [array EXCEPT ![i + 1] = At(array, j), ![j + 1] = At(array, i)],
            i + 1, j - 1)

reverse_offsets(array, length) ==
    reverse_offsets_loop(array, 0, ToSize(length - 1))

\* apply_order(array, order, length): [array, order, writes] after the call;
\* writes[n] is the number of times slot n - 1 of array was written.
\* A faulty variant of the inner loop of apply_order that leaves order[k] as
\* it was, so that a cycle is not marked as done
RECURSIVE apply_order_cycle_unmarked(_, _, _, _, _, _)
apply_order_cycle_unmarked(array, order, writes, i, k, temp) ==
    LET j == At(order, k)
    IN IF i # j
       THEN apply_order_cycle_unmarked([array EXCEPT ![k + 1] = At(array, j)], order,
                                       [writes EXCEPT ![k + 1] = @ + 1], i, j, temp)
       ELSE [array |-> [array EXCEPT ![k + 1] = temp],
             order |-> order,
             writes |-> [writes EXCEPT ![k + 1] = @ + 1]]

RECURSIVE apply_order_cycle(_, _, _, _, _, _)
apply_order_cycle(array, order, writes, i, k, temp) ==
    LET j == At(order, k)
    IN IF i # j
       THEN apply_order_cycle([array EXCEPT ![k + 1] = At(array, j)],
                              [order EXCEPT ![k + 1] = k],
                              [writes EXCEPT ![k + 1] = @ + 1], i, j, temp)
       ELSE [array |-> [array EXCEPT ![k + 1] = temp],
             order |-> [order EXCEPT ![k + 1] = k],
             writes |-> [writes EXCEPT ![k + 1] = @ + 1]]

\* A faulty variant of the loop of apply_order that exchanges slot i with
\* slot order[i] once, instead of following the cycle that starts at i
RECURSIVE apply_order_swaps(_, _, _, _, _)
apply_order_swaps(array, order, writes, length, i) ==
    IF ~(i < length) THEN [array |-> array, order |-> order, writes |-> writes]
    ELSE LET j == At(order, i)
         IN apply_order_swaps(
               [array EXCEPT ![i + 1] = At(array, j), ![j + 1] = At(array, i)],
               [order EXCEPT ![i + 1] = i],
               [writes EXCEPT ![i + 1] = @ + 1, ![j + 1] = @ + 1], length, i + 1)

RECURSIVE apply_order_from(_, _, _, _, _)
apply_order_from(array, order, writes, length, i) ==
    IF ~(i < length) THEN [array |-> array, order |-> order, writes |-> writes]
    ELSE IF i = At(order, i) THEN apply_order_from(array, order, writes, length, i + 1)
    ELSE LET done == apply_order_cycle(array, order, writes, i, i, At(array, i))
         IN apply_order_from(done.array, done.order, done.writes, length, i + 1)

\* A faulty variant of apply_order that moves element i to slot order[i]
\* instead of filling slot i from order[i]
apply_order_scatter(array, order, length) ==
    [array |-> [n \in 1..Len(array) |->
                   IF n <= length
                   THEN array[CHOOSE m \in 1..length : At(order, m - 1) = n - 1]
                   ELSE array[n]],
     order |-> [n \in 1..Len(order) |-> n - 1],
     writes |-> [n \in 1..Len(array) |-> 1]]

apply_order(array, order, length) ==
    apply_order_from(array, order, [n \in 1..Len(array) |-> 0], length, 0)

\* The process-wide scratch buffer: start is "NULL" or "block" (a heap
\* block), length is the recorded size; size is the real size of the block
\* start points to (0 when start is "NULL").
sizeof_sorted_idx == 8
InitialScratch == 4096

TemporaryMemory(start, length, size) == [start |-> start, length |-> length, size |-> size]

\* Strs_sort_(self): [ok, error, strs, tm, order].  mem names the allocation
\* that fails during the call: "none", "parts" (the layout conversion) or
\* "scratch" (growing the scratch buffer).
\* ... once the scratch buffer was grown to tm:
Strs_sort_sorted(txt, reordered, tm, ties) ==
    IF tm.start = "NULL"
    THEN [ok |-> FALSE, error |-> "MemoryError", strs |-> reordered, tm |-> tm,
          order |-> <<>>]
    ELSE [ok |-> TRUE, error |-> "none", strs |-> reordered, tm |-> tm,
          order |-> sz_sort(txt, reordered.parts, ties)]

\* ... once the layout was changed, with outcome prep:
Strs_sort_prepared(txt, prep, tm, ties, mem) ==
    IF ~prep.ok
    THEN [ok |-> FALSE, error |-> "TypeError", strs |-> prep.strs, tm |-> tm,
          order |-> <<>>]
    ELSE Strs_sort_sorted(txt, prep.strs,
            IF tm.length < sizeof_sorted_idx * prep.strs.count
            THEN (IF mem = "scratch"
                  THEN TemporaryMemory("NULL", sizeof_sorted_idx * prep.strs.count, 0)
                  ELSE TemporaryMemory("block", sizeof_sorted_idx * prep.strs.count,
                                       sizeof_sorted_idx * prep.strs.count))
            ELSE tm,
            ties)

Strs_sort_(txt, self, tm, ties, mem) ==
    Strs_sort_prepared(txt, prepare_strings_for_reordering(self, mem # "parts"),
                       tm, ties, mem)

\* Strs_sort(self, reverse): the collection, the scratch buffer and the outcome.
\* ... once the order was reversed or left, with outcome rev:
Strs_sort_apply(sorted, rev) ==
    IF rev.crash
    THEN [outcome |-> "crash", error |-> "none", strs |-> sorted.strs,
          tm |-> sorted.tm, value |-> <<>>]
    ELSE [outcome |-> "none", error |-> "none",
          strs |-> [sorted.strs EXCEPT !.parts =
                       apply_order(sorted.strs.parts, rev.array, sorted.strs.count).array],
          tm |-> sorted.tm, value |-> <<>>]

\* ... once Strs_sort_ returned sorted:
Strs_sort_reverse(sorted, reverse) ==
    IF ~sorted.ok
    THEN [outcome |-> "error", error |-> sorted.error, strs |-> sorted.strs,
          tm |-> sorted.tm, value |-> <<>>]
    ELSE Strs_sort_apply(sorted,
            IF reverse THEN reverse_offsets(sorted.order, sorted.strs.count)
                       ELSE [crash |-> FALSE, array |-> sorted.order])

Strs_sort(txt, self, tm, ties, reverse, mem) ==
    Strs_sort_reverse(Strs_sort_(txt, self, tm, ties, mem), reverse)

\* Strs_order(self, reverse): as Strs_sort, but the order is returned as a
\* tuple of indices and the parts are left alone.
\* A faulty variant of the end of Strs_order that applies the order to the
\* parts, as Strs_sort does, before it returns the tuple
Strs_order_applied(sorted, rev) ==
    IF rev.crash
    THEN [outcome |-> "crash", error |-> "none", strs |-> sorted.strs,
          tm |-> sorted.tm, value |-> <<>>]
    ELSE [outcome |-> "tuple", error |-> "none",
          strs |-> [sorted.strs EXCEPT !.parts =
                       apply_order(sorted.strs.parts, rev.array, sorted.strs.count).array],
          tm |-> sorted.tm, value |-> rev.array]

Strs_order_tuple(sorted, rev) ==
    IF rev.crash
    THEN [outcome |-> "crash", error |-> "none", strs |-> sorted.strs,
          tm |-> sorted.tm, value |-> <<>>]
    ELSE [outcome |-> "tuple", error |-> "none", strs |-> sorted.strs,
          tm |-> sorted.tm, value |-> rev.array]

Strs_order_reverse(sorted, reverse) ==
    IF ~sorted.ok
    THEN [outcome |-> "error", error |-> sorted.error, strs |-> sorted.strs,
          tm |-> sorted.tm, value |-> <<>>]
    ELSE Strs_order_tuple(sorted,
            IF reverse THEN reverse_offsets(sorted.order, sorted.strs.count)
                       ELSE [crash |-> FALSE, array |-> sorted.order])

Strs_order(txt, self, tm, ties, reverse, mem) ==
    Strs_order_reverse(Strs_sort_(txt, self, tm, ties, mem), reverse)

\* Strs_shuffle(self, seed): rand names the value of rand() % (i + 1) drawn
\* at each i.  The loop index is size_t: with count = 0 it starts at
\* SIZE_MAX and the first draw divides by i + 1 = 0.
\* A faulty variant of the loop of Strs_shuffle that copies parts[j] over
\* parts[i] and does not put the saved parts[i] back at j
RECURSIVE shuffle_loop_overwrites(_, _, _)
shuffle_loop_overwrites(parts, i, rand) ==
    IF ~(i > 0) THEN parts
    ELSE shuffle_loop_overwrites([parts EXCEPT ![i + 1] = At(parts, rand[i])],
                                 i - 1, rand)

RECURSIVE shuffle_loop(_, _, _)
shuffle_loop(parts, i, rand) ==
    IF ~(i > 0) THEN parts
    ELSE LET j == rand[i]
         IN shuffle_loop([parts EXCEPT ![i + 1] = At(parts, j), ![j + 1] = At(parts, i)],
                         i - 1, rand)

Strs_shuffle_prepared(prep, rand) ==
    IF ~prep.ok
    THEN [outcome |-> "error", error |-> "TypeError", strs |-> prep.strs]
    ELSE IF ToSize(prep.strs.count - 1) > 0 /\ ToSize(ToSize(prep.strs.count - 1) + 1) = 0
    THEN [outcome |-> "crash", error |-> "none", strs |-> prep.strs]
    ELSE [outcome |-> "none", error |-> "none",
          strs |-> [prep.strs EXCEPT !.parts =
                       shuffle_loop(prep.strs.parts, prep.strs.count - 1, rand)]]

Strs_shuffle(self, rand, mem) ==
    Strs_shuffle_prepared(prepare_strings_for_reordering(self, mem # "parts"), rand)

\* ------------------------------------------------------ sub-range extraction
\* A faulty variant of Strs_getitem that counts a negative index from the
\* last part, so that -1 is the part before the last one, and takes the
\* reference on the parent before it checks the range
Strs_getitem_from_last(self, index, alloc_ok) ==
    LET count == Strs_len(self)
        i == IF index < 0 THEN index + count - 1 ELSE index
    IN IF i < 0 \/ i >= count
       THEN [outcome |-> "error", error |-> "IndexError", view |-> <<>>, increfs |-> 1]
       ELSE IF ~alloc_ok
       THEN [outcome |-> "crash", error |-> "MemoryError", view |-> <<>>, increfs |-> 1]
       ELSE [outcome |-> "view", error |-> "none",
             view |-> <<str_at_offset_getter(self, i, count)>>, increfs |-> 1]

\* Strs_getitem(self, i): [outcome, error, view, increfs], increfs being the
\* number of references taken on the parent.  alloc_ok tells whether the
\* new Str object can be allocated; the guard on the allocation never
\* returns, so a failed allocation is written through.
Strs_getitem(self, index, alloc_ok) ==
    LET count == Strs_len(self)
        i == IF index < 0 THEN index + count ELSE index
    IN IF i < 0 \/ i >= count
       THEN [outcome |-> "error", error |-> "IndexError", view |-> <<>>, increfs |-> 0]
       ELSE IF ~alloc_ok
       THEN [outcome |-> "crash", error |-> "MemoryError", view |-> <<>>, increfs |-> 0]
       ELSE [outcome |-> "view", error |-> "none",
             view |-> <<str_at_offset_getter(self, i, count)>>, increfs |-> 1]

\* A faulty variant of the copy of the offsets of a sub-range that leaves
\* them relative to the start of the source collection
RECURSIVE rebase_offsets_unshifted(_, _, _, _, _, _)
rebase_offsets_unshifted(from_offsets, start, first_offset, count, mod, i) ==
    IF i = count THEN <<>>
    ELSE <<At(from_offsets, i + start) % mod>>
         \o rebase_offsets_unshifted(from_offsets, start, first_offset, count, mod, i + 1)

\* The rebased offsets of a sub-range of a consecutive collection
RECURSIVE rebase_offsets(_, _, _, _, _, _)
rebase_offsets(from_offsets, start, first_offset, count, mod, i) ==
    IF i = count THEN <<>>
    ELSE <<(At(from_offsets, i + start) - first_offset) % mod>>
         \o rebase_offsets(from_offsets, start, first_offset, count, mod, i + 1)

\* A faulty variant of Strs_subscript that copies the parts of the
\* sub-range into a reordered collection, whatever the layout of self
Strs_subscript_as_parts(self, start, stop, mem) ==
    LET parts == SubSeq(prepare_strings_for_reordering(self, TRUE).strs.parts,
                        start + 1, stop)
    IN IF mem # "none"
       THEN [outcome |-> "crash", error |-> "MemoryError", strs |-> <<>>, oob |-> FALSE,
             increfs |-> 0]
       ELSE [outcome |-> "strs", error |-> "none",
             strs |-> <<Reordered(Len(parts), self.parent, parts, FALSE)>>,
             oob |-> FALSE, increfs |-> 1]

\* Strs_subscript(self, slice) after the bounds were adjusted:
\* [outcome, error, strs, oob, increfs].  mem names the allocation that fails:
\* "none", "object" (the new Strs) or "array" (its offsets or parts).
\* A request of more bytes than the address space holds always fails.  The
\* guards on the allocations never return, so with a NULL array the copy
\* loop writes through it; only an empty copy survives, with the error set.
\* oob: the accessor read end_offsets[start] with start = count.
Strs_subscript(self, start, stop, mem) ==
    LET count == Strs_len(self)
        to_count == ToSize(stop - start)
        array_null == mem = "array" \/ stop < start
        consecutive == self.type \in {"STRS_CONSECUTIVE_32", "STRS_CONSECUTIVE_64"}
        mod == IF self.type = "STRS_CONSECUTIVE_32" THEN UINT32_MOD ELSE SIZE_MOD
        first_offset == IF start = 0 THEN 0 ELSE At(self.end_offsets, start - 1)
        oob == consecutive /\ start >= count
    IN IF mem = "object"
       THEN [outcome |-> "crash", error |-> "MemoryError", strs |-> <<>>, oob |-> FALSE,
             increfs |-> 0]
       ELSE IF oob /\ self.array_null
       THEN [outcome |-> "crash", error |-> "none", strs |-> <<>>, oob |-> TRUE,
             increfs |-> 0]
       ELSE IF array_null /\ to_count # 0
       THEN [outcome |-> "crash", error |-> "MemoryError", strs |-> <<>>, oob |-> oob,
             increfs |-> 0]
       ELSE
         LET made ==
               CASE self.type = "STRS_CONSECUTIVE_32" ->
                      Consecutive32(to_count, self.separator_length, self.parent,
                                    self.start + first_offset,
                                    rebase_offsets(self.end_offsets, start, first_offset,
                                                   to_count, mod, 0), array_null)
                 [] self.type = "STRS_CONSECUTIVE_64" ->
                      Consecutive64(to_count, self.separator_length, self.parent,
                                    self.start + first_offset,
                                    rebase_offsets(self.end_offsets, start, first_offset,
                                                   to_count, mod, 0), array_null)
                 [] self.type = "STRS_REORDERED" ->
                      Reordered(to_count, self.parent,
                                SubSeq(self.parts, start + 1, stop), array_null)
         IN [outcome |-> "strs",
             error |-> IF array_null THEN "MemoryError" ELSE "none",
             strs |-> <<made>>,
             oob |-> oob,
             increfs |-> 1]

\* ----------------------------------------------------------- slicing a Str
\* PySlice_AdjustIndices(length, &start, &stop, step) for step > 0: each
\* bound is counted from the end when negative and clamped into [0, length]
\* on its own, so stop may end below start.
PySlice_AdjustIndices(length, start, stop) ==
    LET adjust(b) == IF b < 0 THEN (IF b + length < 0 THEN 0 ELSE b + length)
                     ELSE IF b >= length THEN length ELSE b
    IN [start |-> adjust(start), stop |-> adjust(stop)]

\* Str_subscript(self, slice(start, stop, step)): [outcome, error, view,
\* increfs].  The length of the slice is stop - start stored in a size_t.
\* The guard on the allocation of the new Str never returns, so a failed
\* allocation is written through.  The new Str refers to self.
Str_subscript(self, start, stop, step, alloc_ok) ==
    LET adjusted == PySlice_AdjustIndices(self.length, start, stop)
    IN IF step # 1
       THEN [outcome |-> "error", error |-> "IndexError", view |-> <<>>, increfs |-> 0]
       ELSE IF ~alloc_ok
       THEN [outcome |-> "crash", error |-> "MemoryError", view |-> <<>>, increfs |-> 0]
       ELSE [outcome |-> "view", error |-> "none",
             view |-> <<[parent |-> "Str",
                         start |-> self.start + adjusted.start,
                         length |-> ToSize(adjusted.stop - adjusted.start)]>>,
             increfs |-> 1]

\* ------------------------------------------------------------ the program
VARIABLES
    text,               \* bytes of the host buffer that is split
    separator,          \* bytes of the separator
    temporary_memory,   \* the process-wide scratch buffer
    strs,               \* <<the collection the program holds>>, <<>> before split
    op,                 \* the last call and its arguments
    ret,                \* its outcome: kind, error and returned value
    increfs,            \* the references it took on the owner of the parts
    objects             \* the Python objects made so far, by identity

calls == <<text, separator, temporary_memory, strs, op, ret, increfs>>

vars == <<text, separator, temporary_memory, strs, op, ret, increfs, objects>>

\* layout is the layout of the collection when the call was made
Call(name, layout, reverse, keepseparator, maxsplit, start, stop, mem) ==
    [name |-> name, layout |-> layout, reverse |-> reverse,
     keepseparator |-> keepseparator, maxsplit |-> maxsplit,
     start |-> start, stop |-> stop, mem |-> mem]

Outcome(kind, error, value) == [outcome |-> kind, error |-> error, value |-> value]

NoCall == Call("none", "none", FALSE, FALSE, 0, 0, 0, "none")

Running == ret.outcome # "crash"

\* The observable parts of a collection: what indexing 0..count-1 returns
Parts(c) ==
    [n \in 1..c.count |->
        LET got == str_at_offset_getter(c, n - 1, c.count)
        IN [start |-> got.start, length |-> got.length]]

MaxSplits == {-1, 0, 1, 2, PY_SSIZE_T_MAX}
\* The allocations a call on collection c makes, each of which may fail:
\* the parts array when c is still consecutive, the scratch buffer when it
\* is too small for the order of c.
ConversionFaults(c) ==
    {"none"} \cup (IF c.type # "STRS_REORDERED" THEN {"parts"} ELSE {})

MemFaults(c, tm) ==
    ConversionFaults(c)
    \cup (IF tm.length < sizeof_sorted_idx * c.count THEN {"scratch"} ELSE {})
TieRules == {"low_first", "high_first"}

\* PyInit_stringzilla with the scratch buffer of 4096 bytes allocated.  The
\* program holds one text and one separator.
Init ==
    /\ text \in SeqsUpTo(Bytes, MaxLen)
    /\ separator \in SeqsUpTo(Bytes, MaxSepLen) \ {<<>>}
    /\ temporary_memory = TemporaryMemory("block", InitialScratch, InitialScratch)
    /\ strs = <<>>
    /\ op = NoCall
    /\ ret = Outcome("none", "none", <<>>)
    /\ increfs = 0
    /\ objects = <<>>

\* strs = split(text, separator, maxsplit, keepseparator)
Split ==
    /\ Running
    /\ strs = <<>>
    /\ \E keepseparator \in BOOLEAN, maxsplit \in MaxSplits, failAt \in {NULL, 0, 2} :
        \E got \in {Str_split_("text", text, 0, Len(text), separator, keepseparator,
                                maxsplit, failAt)} :
           /\ op' = Call("split", "none", FALSE, keepseparator, maxsplit, 0, 0,
                         IF got.oom THEN "offsets" ELSE "none")
           /\ strs' = IF got.oom THEN <<>> ELSE <<got.strs>>
           /\ ret' = IF got.oom THEN Outcome("error", "MemoryError", <<>>)
                                ELSE Outcome("strs", "none", <<>>)
           /\ increfs' = got.increfs
           /\ UNCHANGED <<text, separator, temporary_memory, objects>>

\* strs.sort(reverse)
Sort ==
    \E reverse \in BOOLEAN, ties \in TieRules :
      /\ Running
      /\ strs # <<>>
      /\ \E mem \in MemFaults(strs[1], temporary_memory) :
        /\ \E got \in {Strs_sort(text, strs[1], temporary_memory, ties, reverse, mem)} :
              /\ strs' = <<got.strs>>
              /\ temporary_memory' = got.tm
              /\ ret' = Outcome(got.outcome, got.error, got.value)
              /\ increfs' = 0
        /\ op' = Call("sort", strs[1].type, reverse, FALSE, 0, 0, 0, mem)
        /\ UNCHANGED <<text, separator, objects>>

\* strs.order(reverse)
Order ==
    \E reverse \in BOOLEAN, ties \in TieRules :
      /\ Running
      /\ strs # <<>>
      /\ \E mem \in MemFaults(strs[1], temporary_memory) :
        /\ \E got \in {Strs_order(text, strs[1], temporary_memory, ties, reverse, mem)} :
              /\ strs' = <<got.strs>>
              /\ temporary_memory' = got.tm
              /\ ret' = Outcome(got.outcome, got.error, got.value)
              /\ increfs' = 0
        /\ op' = Call("order", strs[1].type, reverse, FALSE, 0, 0, 0, mem)
        /\ UNCHANGED <<text, separator, objects>>

\* strs.shuffle(seed): the draws of rand() are any values in range
Shuffle ==
    /\ Running
    /\ strs # <<>>
    /\ \E mem \in ConversionFaults(strs[1]) :
        /\ \E rand \in [1..(strs[1].count - 1) -> 0..(strs[1].count - 1)] :
              /\ \A i \in DOMAIN rand : rand[i] <= i
              /\ \E got \in {Strs_shuffle(strs[1], rand, mem)} :
                    /\ strs' = <<got.strs>>
                    /\ ret' = Outcome(got.outcome, got.error, <<>>)
                    /\ increfs' = 0
        /\ op' = Call("shuffle", strs[1].type, FALSE, FALSE, 0, 0, 0, mem)
        /\ UNCHANGED <<text, separator, temporary_memory, objects>>

\* strs[index]: the returned Str is the value of the outcome
Getitem ==
    \E alloc_ok \in BOOLEAN :
        /\ Running
        /\ strs # <<>>
        /\ \E index \in (-(strs[1].count + 1))..(strs[1].count) :
              \E got \in {Strs_getitem(strs[1], index, alloc_ok)} :
                 /\ ret' = Outcome(got.outcome, got.error, got.view)
                 /\ increfs' = got.increfs
                 /\ op' = Call("getitem", strs[1].type, FALSE, FALSE, 0, index, 0,
                               IF alloc_ok THEN "none" ELSE "object")
        /\ UNCHANGED <<text, separator, temporary_memory, strs, objects>>

\* strs = strs[a:b]: the program goes on with the sub-range.  start and stop
\* are the bounds as PySlice_AdjustIndices leaves them for step 1: each
\* clamped into [0, count], in any order.
Subscript ==
    \E mem \in {"none", "object", "array"} :
        /\ Running
        /\ strs # <<>>
        /\ \E start \in 0..Strs_len(strs[1]), stop \in 0..Strs_len(strs[1]) :
              \E got \in {Strs_subscript(strs[1], start, stop, mem)} :
                 /\ strs' = IF got.outcome = "strs" THEN got.strs ELSE strs
                 /\ ret' = Outcome(got.outcome, got.error, <<>>)
                 /\ increfs' = got.increfs
                 /\ op' = Call("subscript", strs[1].type, FALSE, FALSE, 0, start, stop, mem)
        /\ UNCHANGED <<text, separator, temporary_memory, objects>>

Next == Split \/ Sort \/ Order \/ Shuffle \/ Getitem \/ Subscript

Spec == Init /\ [][Next]_vars

\* PyInit_stringzilla when the allocation of the scratch buffer fails: the
\* module is loaded with temporary_memory = {NULL, 0}
InitNoScratch ==
    /\ text \in SeqsUpTo(Bytes, MaxLen)
    /\ separator \in SeqsUpTo(Bytes, MaxSepLen) \ {<<>>}
    /\ temporary_memory = TemporaryMemory("NULL", 0, 0)
    /\ strs = <<>>
    /\ op = NoCall
    /\ ret = Outcome("none", "none", <<>>)
    /\ increfs = 0
    /\ objects = <<>>

SpecNoScratch == InitNoScratch /\ [][Next]_vars

\* ----------------------------------------------------------- partitioning
\* rfind(haystack, needle) -> address of the rightmost occurrence | not-found
sz_rfind(txt, h_start, h_length, needle) ==
    LET n == Len(needle)
        hits == {p \in h_start..(h_start + h_length - n) :
                    \A k \in 1..n : txt[p + k] = needle[k]}
    IN IF hits = {} THEN NULL ELSE Max(hits)

\* Negative-index clamping of (start, end) over length: each bound is counted
\* from the end when negative and clamped into [0, length]; start > end
\* yields the empty range
sz_ssize_clamp_interval(length, start, end) ==
    LET clamp(b) == Max({0, Min({length, IF b < 0 THEN b + length ELSE b})})
        s == Min({clamp(start), clamp(end)})
    IN [offset |-> s, length |-> clamp(end) - s]

\* _Str_find_implementation_: [offset, haystack, needle].  haystack is the
\* searched range, offset is counted from the start of the whole text and
\* is -1 when the needle is not found.
Str_find_implementation_(txt, h_start, h_length, needle, start, end, finder) ==
    LET normalized == sz_ssize_clamp_interval(h_length, start, end)
        haystack == [start |-> h_start + normalized.offset, length |-> normalized.length]
        match == IF finder = "sz_find"
                 THEN sz_find(txt, haystack.start, haystack.length, needle)
                 ELSE sz_rfind(txt, haystack.start, haystack.length, needle)
    IN [offset |-> IF match = NULL THEN -1
                   ELSE match - haystack.start + normalized.offset,
        haystack |-> haystack,
        needle |-> needle]

\* _Str_partition_implementation: [outcome, error, views], views being the
\* (start, length) of before, middle and after when the separator is found.
\* Str_new gives NULL when the object cannot be allocated and the fields
\* of the three parts are written without a test.
Str_partition_implementation(txt, h_start, h_length, needle, start, end, finder, alloc_ok) ==
    LET found == Str_find_implementation_(txt, h_start, h_length, needle, start, end, finder)
        separator_index == found.offset
        t == found.haystack
    IN IF separator_index = -1
       THEN [outcome |-> "self", error |-> IF alloc_ok THEN "none" ELSE "RuntimeError",
             views |-> <<>>]
       ELSE IF ~alloc_ok
       THEN [outcome |-> "crash", error |-> "RuntimeError", views |-> <<>>]
       ELSE [outcome |-> "tuple", error |-> "none",
             views |-> <<[start |-> t.start, length |-> ToSize(separator_index)],
                         [start |-> t.start + separator_index, length |-> Len(needle)],
                         [start |-> t.start + separator_index + Len(needle),
                          length |-> ToSize(t.length - separator_index - Len(needle))]>>]

\* The values of end: the slice bounds and the default PY_SSIZE_T_MAX
EndBounds == (-(MaxLen + 1))..(MaxLen + 1) \cup {PY_SSIZE_T_MAX}

\* Str(text).partition(separator, start, end), the one call of the program
Partition ==
    \E start \in (-(MaxLen + 1))..(MaxLen + 1), end \in EndBounds, alloc_ok \in BOOLEAN :
        /\ Running
        /\ op.name = "none"
        /\ \E got \in {Str_partition_implementation(text, 0, Len(text), separator,
                                                     start, end, "sz_find", alloc_ok)} :
              ret' = Outcome(got.outcome, got.error, got.views)
        /\ op' = Call("partition", "none", FALSE, FALSE, 0, start, end,
                      IF alloc_ok THEN "none" ELSE "object")
        /\ UNCHANGED <<text, separator, temporary_memory, strs, increfs, objects>>

\* Str(text).rpartition(separator, start, end)
Rpartition ==
    \E start \in (-(MaxLen + 1))..(MaxLen + 1), end \in EndBounds, alloc_ok \in BOOLEAN :
        /\ Running
        /\ op.name = "none"
        /\ \E got \in {Str_partition_implementation(text, 0, Len(text), separator,
                                                     start, end, "sz_rfind", alloc_ok)} :
              ret' = Outcome(got.outcome, got.error, got.views)
        /\ op' = Call("rpartition", "none", TRUE, FALSE, 0, start, end,
                      IF alloc_ok THEN "none" ELSE "object")
        /\ UNCHANGED <<text, separator, temporary_memory, strs, increfs, objects>>

NextPartition == Partition \/ Rpartition

SpecPartition == Init /\ [][NextPartition]_vars

\* ------------------------------------------------------------ held views
\* The program keeps the Str that strs[index] returned (objects holds it)
\* while it goes on sorting, ordering and shuffling the collection.
\* A faulty variant in which a held Str reads its start and length from the
\* slot of the collection it was taken from
HeldViewsInSlots(held, before, after) ==
    [v \in DOMAIN held |->
        LET slots == {n \in 1..before.count :
                         /\ Parts(before)[n].start = held[v].start
                         /\ Parts(before)[n].length = held[v].length}
        IN IF slots = {} \/ after.count # before.count THEN held[v]
           ELSE LET n == CHOOSE s \in slots : \A t \in slots : s <= t
                IN [held[v] EXCEPT !.start = Parts(after)[n].start,
                                   !.length = Parts(after)[n].length]]

\* The held Str objects after a sort, order or shuffle that took the
\* collection from before to after: Strs_getitem copied parent, start and
\* length into the Str, and the calls write to the Strs object, its arrays
\* and the scratch buffer only
HeldViews(held, before, after) == held

GetitemHeld ==
    \E alloc_ok \in BOOLEAN :
        /\ Running
        /\ strs # <<>>
        /\ \E index \in (-(strs[1].count + 1))..(strs[1].count) :
              \E got \in {Strs_getitem(strs[1], index, alloc_ok)} :
                 /\ ret' = Outcome(got.outcome, got.error, got.view)
                 /\ objects' = IF got.outcome = "view" THEN got.view ELSE objects
                 /\ increfs' = got.increfs
                 /\ op' = Call("getitem", strs[1].type, FALSE, FALSE, 0, index, 0,
                               IF alloc_ok THEN "none" ELSE "object")
        /\ UNCHANGED <<text, separator, temporary_memory, strs>>

SortHeld ==
    \E reverse \in BOOLEAN, ties \in TieRules :
      /\ Running
      /\ strs # <<>>
      /\ \E mem \in MemFaults(strs[1], temporary_memory) :
        /\ \E got \in {Strs_sort(text, strs[1], temporary_memory, ties, reverse, mem)} :
              /\ strs' = <<got.strs>>
              /\ temporary_memory' = got.tm
              /\ ret' = Outcome(got.outcome, got.error, got.value)
              /\ objects' = HeldViews(objects, strs[1], got.strs)
              /\ increfs' = 0
        /\ op' = Call("sort", strs[1].type, reverse, FALSE, 0, 0, 0, mem)
        /\ UNCHANGED <<text, separator>>

OrderHeld ==
    \E reverse \in BOOLEAN, ties \in TieRules :
      /\ Running
      /\ strs # <<>>
      /\ \E mem \in MemFaults(strs[1], temporary_memory) :
        /\ \E got \in {Strs_order(text, strs[1], temporary_memory, ties, reverse, mem)} :
              /\ strs' = <<got.strs>>
              /\ temporary_memory' = got.tm
              /\ ret' = Outcome(got.outcome, got.error, got.value)
              /\ objects' = HeldViews(objects, strs[1], got.strs)
              /\ increfs' = 0
        /\ op' = Call("order", strs[1].type, reverse, FALSE, 0, 0, 0, mem)
        /\ UNCHANGED <<text, separator>>

ShuffleHeld ==
    /\ Running
    /\ strs # <<>>
    /\ \E mem \in ConversionFaults(strs[1]) :
        /\ \E rand \in [1..(strs[1].count - 1) -> 0..(strs[1].count - 1)] :
              /\ \A i \in DOMAIN rand : rand[i] <= i
              /\ \E got \in {Strs_shuffle(strs[1], rand, mem)} :
                    /\ strs' = <<got.strs>>
                    /\ ret' = Outcome(got.outcome, got.error, <<>>)
                    /\ objects' = HeldViews(objects, strs[1], got.strs)
                    /\ increfs' = 0
        /\ op' = Call("shuffle", strs[1].type, FALSE, FALSE, 0, 0, 0, mem)
        /\ UNCHANGED <<text, separator, temporary_memory>>

NextHeld == Split \/ GetitemHeld \/ SortHeld \/ OrderHeld \/ ShuffleHeld

SpecHeld == Init /\ [][NextHeld]_vars

\* ------------------------------------------------------ the scratch buffer
\* temporary_memory_allocate(size, existing): [start, tm, error].  The block
\* is grown when its recorded length is below size; when realloc fails the
\* buffer is left as it was and NULL is returned with MemoryError set.
temporary_memory_allocate(size, existing, realloc_ok) ==
    IF existing.length < size
    THEN IF ~realloc_ok
         THEN [start |-> "NULL", tm |-> existing, error |-> "MemoryError"]
         ELSE [start |-> "block", tm |-> TemporaryMemory("block", size, size),
               error |-> "none"]
    ELSE [start |-> existing.start, tm |-> existing, error |-> "none"]

\* The sizes of the Levenshtein matrix asked of the allocator: one below
\* and one above what the order of a collection of the model takes
MatrixSizes == {sizeof_sorted_idx, sizeof_sorted_idx * 2 * (MaxLen + 1)}

\* PyInit_stringzilla: the scratch buffer of 4096 bytes is allocated, or
\* the allocation fails and the buffer is {NULL, 0}
InitScratch ==
    /\ text \in SeqsUpTo(Bytes, MaxLen)
    /\ separator \in SeqsUpTo(Bytes, MaxSepLen) \ {<<>>}
    /\ temporary_memory \in {TemporaryMemory("block", InitialScratch, InitialScratch),
                              TemporaryMemory("NULL", 0, 0)}
    /\ strs = <<>>
    /\ op = NoCall
    /\ ret = Outcome("none", "none", <<>>)
    /\ increfs = 0
    /\ objects = <<>>

\* edit_distance(text, separator): the distance function asks the allocator
\* for its matrix and returns the SZ_SIZE_MAX sentinel when it gets NULL,
\* which the binding turns into MemoryError; else an integer is returned.
\* The size asked is kept in op.stop.
Distance ==
    \E size \in MatrixSizes, mem \in {"none", "scratch"} :
        /\ Running
        /\ mem = "scratch" => temporary_memory.length < size
        /\ \E got \in {temporary_memory_allocate(size, temporary_memory, mem = "none")} :
              /\ temporary_memory' = got.tm
              /\ ret' = IF got.start = "NULL"
                        THEN Outcome("error", "MemoryError", <<>>)
                        ELSE Outcome("int", "none", <<>>)
        /\ increfs' = 0
        /\ op' = Call("distance", "none", FALSE, FALSE, 0, 0, size, mem)
        /\ UNCHANGED <<text, separator, strs, objects>>

NextScratch == Split \/ Sort \/ Order \/ Distance

SpecScratch == InitScratch /\ [][NextScratch]_vars

\* ------------------------------------------------------------ Str slices
\* The program holds s = Str(text) and goes on with s = s[a:b:step].  The
\* held view is the value of the last outcome.
SliceBounds == (-(MaxLen + 1))..(MaxLen + 1)

InitStr ==
    /\ text \in SeqsUpTo(Bytes, MaxLen)
    /\ separator = <<1>>
    /\ temporary_memory = TemporaryMemory("block", InitialScratch, InitialScratch)
    /\ strs = <<>>
    /\ op = NoCall
    /\ ret = Outcome("view", "none",
                     <<[parent |-> "text", start |-> 0, length |-> Len(text)]>>)
    /\ increfs = 1
    /\ objects = <<>>

\* s = s[start:stop:step].  A view whose length does not fit Py_ssize_t is
\* not sliced again.
StrSlice ==
    /\ ret.outcome = "view"
    /\ ret.value[1].length <= PY_SSIZE_T_MAX
    /\ \E start \in SliceBounds, stop \in SliceBounds, step \in {1, 2},
          alloc_ok \in BOOLEAN :
          \E got \in {Str_subscript(ret.value[1], start, stop, step, alloc_ok)} :
             /\ ret' = Outcome(got.outcome, got.error, got.view)
             /\ increfs' = got.increfs
             /\ op' = Call("str_subscript", "none", FALSE, FALSE, 0, start, stop,
                           IF alloc_ok THEN "none" ELSE "object")
    /\ UNCHANGED <<text, separator, temporary_memory, strs, objects>>

NextStr == StrSlice

SpecStr == InitStr /\ [][NextStr]_vars

\* ----------------------------------------------------- two collections
\* The program holds A = split(text, separator) and then B = A[start:stop],
\* and sorts, orders and shuffles either.  strs is <<A, B>>; objects[k] is
\* the pointer held by strs[k] to its end_offsets or parts array: the heap
\* block it points into and the offset, in elements, inside that block.
\* The arrays in the records of strs are what is read through the pointers.
\* The separator is one byte and the text is a byte shorter than elsewhere.
ArrayPointer(block, offset) == [block |-> block, offset |-> offset]

\* The block a malloc returns: one that no collection points into
FreshBlock(pointers) ==
    1 + Max({0} \cup {pointers[k].block : k \in DOMAIN pointers})

\* A faulty variant of the array of a sub-range that points into the array
\* of the source instead of copying it
Strs_subscript_shares(from, start, block) ==
    ArrayPointer(from.block, from.offset + start)

\* The array of the collection Strs_subscript returns: a block of its own
\* (malloc), into which the offsets or parts of source from are copied
Strs_subscript_array(from, start, block) == ArrayPointer(block, 0)

\* What collection j holds after the call on collection k returned got:
\* k holds the result; another collection whose pointer goes into the
\* block that was sorted or shuffled in place reads the moved parts.
AfterCall(k, got, j) ==
    IF j = k THEN got
    ELSE IF /\ strs[k].type = "STRS_REORDERED" /\ strs[j].type = "STRS_REORDERED"
            /\ objects[j].block = objects[k].block
    THEN [strs[j] EXCEPT !.parts =
            [n \in 1..Len(@) |->
                LET cell == objects[j].offset + n - objects[k].offset
                IN IF cell \in 1..Len(got.parts) THEN got.parts[cell] ELSE @[n]]]
    ELSE strs[j]

\* The pointers after the call on k: a layout conversion gives k a new block
PointersAfter(k, got) ==
    IF strs[k].type # got.type
    THEN [objects EXCEPT ![k] = ArrayPointer(FreshBlock(objects), 0)]
    ELSE objects

InitShare ==
    /\ text \in SeqsUpTo(Bytes, MaxLen - 1)
    /\ separator \in {<<b>> : b \in Bytes}
    /\ temporary_memory = TemporaryMemory("block", InitialScratch, InitialScratch)
    /\ strs = <<>>
    /\ op = NoCall
    /\ ret = Outcome("none", "none", <<>>)
    /\ increfs = 0
    /\ objects = <<>>

\* A = split(text, separator, keepseparator = ...)
SplitShare ==
    /\ Running
    /\ strs = <<>>
    /\ \E keepseparator \in BOOLEAN :
        \E got \in {Str_split_("text", text, 0, Len(text), separator, keepseparator,
                                PY_SSIZE_T_MAX, NULL)} :
           /\ op' = Call("split", "none", FALSE, keepseparator, PY_SSIZE_T_MAX, 0, 0, "none")
           /\ strs' = <<got.strs>>
           /\ objects' = <<ArrayPointer(FreshBlock(objects), 0)>>
           /\ ret' = Outcome("strs", "none", <<>>)
           /\ increfs' = got.increfs
    /\ UNCHANGED <<text, separator, temporary_memory>>

\* B = A[start:stop]
SliceShare ==
    /\ Running
    /\ Len(strs) = 1
    /\ \E start \in 0..Strs_len(strs[1]), stop \in 0..Strs_len(strs[1]) :
          /\ start < stop
          /\ \E got \in {Strs_subscript(strs[1], start, stop, "none")} :
                /\ got.outcome = "strs"
                /\ strs' = Append(strs, got.strs[1])
                /\ objects' = Append(objects,
                                     Strs_subscript_array(objects[1], start,
                                                          FreshBlock(objects)))
                /\ ret' = Outcome(got.outcome, got.error, <<>>)
                /\ increfs' = got.increfs
                /\ op' = Call("subscript", strs[1].type, FALSE, FALSE, 0, start, stop, "none")
    /\ UNCHANGED <<text, separator, temporary_memory>>

\* strs[k].sort(reverse); the collection called is recorded as the start of op
SortShare ==
    \E k \in DOMAIN strs, reverse \in BOOLEAN, ties \in TieRules :
      /\ Running
      /\ \E mem \in ConversionFaults(strs[k]) :
          \E got \in {Strs_sort(text, strs[k], temporary_memory, ties, reverse, mem)} :
              /\ strs' = [j \in DOMAIN strs |-> AfterCall(k, got.strs, j)]
              /\ objects' = PointersAfter(k, got.strs)
              /\ temporary_memory' = got.tm
              /\ ret' = Outcome(got.outcome, got.error, got.value)
              /\ increfs' = 0
              /\ op' = Call("sort", strs[k].type, reverse, FALSE, 0, k, 0, mem)
      /\ UNCHANGED <<text, separator>>

\* strs[k].order(reverse)
OrderShare ==
    \E k \in DOMAIN strs, reverse \in BOOLEAN, ties \in TieRules :
      /\ Running
      /\ \E mem \in ConversionFaults(strs[k]) :
          \E got \in {Strs_order(text, strs[k], temporary_memory, ties, reverse, mem)} :
              /\ strs' = [j \in DOMAIN strs |-> AfterCall(k, got.strs, j)]
              /\ objects' = PointersAfter(k, got.strs)
              /\ temporary_memory' = got.tm
              /\ ret' = Outcome(got.outcome, got.error, got.value)
              /\ increfs' = 0
              /\ op' = Call("order", strs[k].type, reverse, FALSE, 0, k, 0, mem)
      /\ UNCHANGED <<text, separator>>

\* strs[k].shuffle(seed)
ShuffleShare ==
    \E k \in DOMAIN strs :
      /\ Running
      /\ \E mem \in ConversionFaults(strs[k]) :
          \E rand \in [1..(strs[k].count - 1) -> 0..(strs[k].count - 1)] :
              /\ \A i \in DOMAIN rand : rand[i] <= i
              /\ \E got \in {Strs_shuffle(strs[k], rand, mem)} :
                    /\ strs' = [j \in DOMAIN strs |-> AfterCall(k, got.strs, j)]
                    /\ objects' = PointersAfter(k, got.strs)
                    /\ ret' = Outcome(got.outcome, got.error, <<>>)
                    /\ increfs' = 0
                    /\ op' = Call("shuffle", strs[k].type, FALSE, FALSE, 0, k, 0, mem)
      /\ UNCHANGED <<text, separator, temporary_memory>>

NextShare == SplitShare \/ SliceShare \/ SortShare \/ OrderShare \/ ShuffleShare

SpecShare == InitShare /\ [][NextShare]_vars

\* --------------------------------------------------------- the split loop
\* The loop of Str_split_ taken one iteration at a time.  op holds the call
\* and the loop variables: start is the cursor last_start, stop is
\* offsets_count.  The outcome is "running" until the loop is left.
\* A faulty variant of the advance of the cursor that moves it to the match
\* and not past it
Str_split_cursor_at_match(txt, t_start, t_length, sep, last_start) ==
    LET match == sz_find(txt, t_start + last_start, t_length - last_start, sep)
    IN last_start + (IF match # NULL THEN match - t_start - last_start
                                     ELSE t_length - last_start)

\* The cursor after the iteration that starts at last_start
Str_split_cursor(txt, t_start, t_length, sep, last_start) ==
    LET match == sz_find(txt, t_start + last_start, t_length - last_start, sep)
        offset_in_remaining ==
            IF match # NULL THEN match - t_start - last_start
                            ELSE t_length - last_start
    IN last_start + offset_in_remaining + Len(sep)

\* The values of offsets_count at which the offset buffer is grown: the
\* capacities 0, 2, 6, 14, ... of offsets_capacity = (offsets_capacity + 1) * 2
GrowsAt == {2 ^ k - 2 : k \in 1..BitsSize}

InitLoop ==
    /\ text \in SeqsUpTo(Bytes, MaxLen)
    /\ separator \in SeqsUpTo(Bytes, MaxSepLen) \ {<<>>}
    /\ temporary_memory = TemporaryMemory("block", InitialScratch, InitialScratch)
    /\ strs = <<>>
    /\ \E maxsplit \in MaxSplits :
          op = Call("split", "none", FALSE, FALSE, maxsplit, 0, 0, "none")
    /\ ret = Outcome("running", "none", <<>>)
    /\ increfs = 0
    /\ objects = <<>>

\* One iteration: the buffer is grown when full, which may fail and end the
\* call; else the offset is stored and the cursor advanced
SplitIteration ==
    /\ ret.outcome = "running"
    /\ split_continues(op.start, Len(text), op.stop, op.maxsplit)
    /\ \E realloc_ok \in BOOLEAN :
          IF op.stop \in GrowsAt /\ ~realloc_ok
          THEN /\ op' = [op EXCEPT !.mem = "offsets"]
               /\ ret' = Outcome("error", "MemoryError", <<>>)
          ELSE /\ op' = [op EXCEPT
                           !.start = Str_split_cursor(text, 0, Len(text), separator, @),
                           !.stop = @ + 1]
               /\ ret' = ret
    /\ UNCHANGED <<text, separator, temporary_memory, strs, increfs, objects>>

\* The loop condition fails: the collection is completed and returned
SplitLoopEnds ==
    /\ ret.outcome = "running"
    /\ ~split_continues(op.start, Len(text), op.stop, op.maxsplit)
    /\ ret' = Outcome("strs", "none", <<>>)
    /\ strs' = <<Str_split_("text", text, 0, Len(text), separator, FALSE,
                             op.maxsplit, NULL).strs>>
    /\ increfs' = 1
    /\ UNCHANGED <<text, separator, temporary_memory, op, objects>>

NextLoop == SplitIteration \/ SplitLoopEnds

\* The thread that runs the call is scheduled until the call returns
SpecLoop == InitLoop /\ [][NextLoop]_vars /\ WF_vars(NextLoop)

\* ------------------------------------------------------------ apply_order
\* apply_order on its own: the program holds any array of up to MaxLen parts
\* (in strs, as a reordered collection) and any order that is a permutation
\* of its indices (in the value of ret), and applies the order once.
OrdersOf(n) ==
    {s \in [1..n -> 0..(n - 1)] : \A a, b \in 1..n : s[a] = s[b] => a = b}

PartPool == {[start |-> s, length |-> 1] : s \in 0..(MaxLen - 1)}

InitApply ==
    /\ text = <<>>
    /\ separator = <<1>>
    /\ temporary_memory = TemporaryMemory("block", InitialScratch, InitialScratch)
    /\ \E array \in SeqsUpTo(PartPool, MaxLen) :
          strs = <<Reordered(Len(array), "text", array, FALSE)>>
    /\ op = NoCall
    /\ \E order \in OrdersOf(strs[1].count) : ret = Outcome("tuple", "none", order)
    /\ increfs = 0
    /\ objects = <<>>

ApplyOrder ==
    /\ op.name = "none"
    /\ \E got \in {apply_order(strs[1].parts, ret.value, strs[1].count)} :
          /\ strs' = <<[strs[1] EXCEPT !.parts = got.array]>>
          /\ ret' = Outcome("tuple", "none", got.order)
    /\ op' = Call("apply_order", strs[1].type, FALSE, FALSE, 0, 0, 0, "none")
    /\ UNCHANGED <<text, separator, temporary_memory, increfs, objects>>

NextApply == ApplyOrder

SpecApply == InitApply /\ [][NextApply]_vars

\* ------------------------------------------------------- object lifetimes
\* Who keeps whom alive.  objects[o] is the Python object with identity o:
\* its kind ("module", "bytes" for a host buffer object, "Str", "Strs"), its
\* reference count refs, the number held of those references that the calling
\* program holds, the object its parent field points to, and the host
\* object whose bytes it reads.  A freed object stays in the sequence with
\* alive = FALSE, so that a pointer to it can still be told.
MaxObjects == 6    \* objects made in a run, the module among them
MaxRefs == 5       \* highest reference count that is followed

Object(kind, parent, buffer) ==
    [kind |-> kind, refs |-> 1, held |-> 1, parent |-> parent, buffer |-> buffer,
     alive |-> TRUE]

\* The stringzilla module is the first object; the interpreter holds it
Module == 1

Py_INCREF(objs, o) == [objs EXCEPT ![o].refs = @ + 1]

\* Py_DECREF(o): at zero the tp_dealloc of the type runs and the object is
\* freed.  Str_dealloc releases the parent.  StrsType has no tp_dealloc: the
\* parent of a collection is never released.  Freeing a host object
\* releases its bytes.
RECURSIVE Py_DECREF(_, _)
Str_dealloc(objs, self) ==
    LET freed == [objs EXCEPT ![self].alive = FALSE]
    IN IF objs[self].parent # NULL THEN Py_DECREF(freed, objs[self].parent) ELSE freed

Py_DECREF(objs, o) ==
    LET left == [objs EXCEPT ![o].refs = @ - 1]
    IN IF left[o].refs > 0 THEN left
       ELSE IF left[o].kind = "Str" THEN Str_dealloc(left, o)
       ELSE [left EXCEPT ![o].alive = FALSE]

\* The program holds a reference to o
Held(o) == o \in DOMAIN objects /\ objects[o].alive /\ objects[o].held > 0

\* export_string_like accepts o: a host object (str, bytes, File) or a Str
StringLike(o) == Held(o) /\ objects[o].kind \in {"bytes", "Str"}

\* The host object whose bytes export_string_like(o) points into
BufferOf(o) == IF objects[o].kind = "bytes" THEN o ELSE objects[o].buffer

CanMake(n) == Len(objects) + n <= MaxObjects

CanRef(o, n) == objects[o].refs + n <= MaxRefs

InitOwn ==
    /\ text = <<>>
    /\ separator = <<1>>
    /\ temporary_memory = TemporaryMemory("block", InitialScratch, InitialScratch)
    /\ strs = <<>>
    /\ op = NoCall
    /\ ret = Outcome("none", "none", <<>>)
    /\ increfs = 0
    /\ objects = <<Object("module", NULL, NULL)>>

\* The program makes a str or bytes object, or maps a file
NewBytes ==
    /\ CanMake(1)
    /\ objects' = Append(objects, Object("bytes", NULL, NULL))
    /\ UNCHANGED calls

\* Str(parent)
StrInit ==
    \E parent_obj \in DOMAIN objects :
        /\ StringLike(parent_obj) /\ CanMake(1) /\ CanRef(parent_obj, 1)
        /\ objects' = Py_INCREF(Append(objects,
                                       Object("Str", parent_obj, BufferOf(parent_obj))),
                                parent_obj)
        /\ UNCHANGED calls

\* self[a:b] on a Str
StrSubscript ==
    \E self \in DOMAIN objects :
        /\ Held(self) /\ objects[self].kind = "Str" /\ CanMake(1) /\ CanRef(self, 1)
        /\ objects' = Py_INCREF(Append(objects, Object("Str", self, BufferOf(self))), self)
        /\ UNCHANGED calls

\* text.partition(sep), text.rpartition(sep) (is_member) and
\* sz.partition(text, sep), sz.rpartition(text, sep): the handler receives
\* the Str as self in the first form and the module in the second.  When
\* the separator is found the three views are made with parent = self.
PartitionFound ==
    \E haystack_obj \in DOMAIN objects, is_member \in BOOLEAN :
        LET self == IF is_member THEN haystack_obj ELSE Module
            view == Object("Str", self, BufferOf(haystack_obj))
        IN /\ StringLike(haystack_obj)
           /\ is_member => objects[haystack_obj].kind = "Str"
           /\ CanMake(3) /\ CanRef(self, 3)
           /\ objects' = Py_INCREF(Py_INCREF(Py_INCREF(
                             objects \o <<view, view, view>>, self), self), self)
           /\ UNCHANGED calls

\* ... and when it is not found the tuple is (self, "", ""): a new reference
\* to self for the program and two empty Str that read no bytes.
PartitionNotFound ==
    \E haystack_obj \in DOMAIN objects, is_member \in BOOLEAN :
        LET self == IF is_member THEN haystack_obj ELSE Module
            empty == Object("Str", NULL, NULL)
        IN /\ StringLike(haystack_obj)
           /\ is_member => objects[haystack_obj].kind = "Str"
           /\ CanMake(2) /\ CanRef(self, 1)
           /\ objects' = [Py_INCREF(objects \o <<empty, empty>>, self)
                             EXCEPT ![self].held = @ + 1]
           /\ UNCHANGED calls

\* text.split(...), text.splitlines(...), sz.split(text, ...),
\* sz.splitlines(text, ...): Str_split_ is given text_obj as the parent
SplitOwn ==
    \E text_obj \in DOMAIN objects :
        /\ StringLike(text_obj) /\ CanMake(1) /\ CanRef(text_obj, 1)
        /\ objects' = Py_INCREF(Append(objects,
                                       Object("Strs", text_obj, BufferOf(text_obj))),
                                text_obj)
        /\ UNCHANGED calls

\* coll[i]
GetitemOwn ==
    \E self \in DOMAIN objects :
        /\ Held(self) /\ objects[self].kind = "Strs"
        /\ CanMake(1) /\ CanRef(objects[self].parent, 1)
        /\ objects' = Py_INCREF(Append(objects,
                                       Object("Str", objects[self].parent,
                                              objects[self].buffer)),
                                objects[self].parent)
        /\ UNCHANGED calls

\* coll[a:b]
SubscriptOwn ==
    \E self \in DOMAIN objects :
        /\ Held(self) /\ objects[self].kind = "Strs"
        /\ CanMake(1) /\ CanRef(objects[self].parent, 1)
        /\ objects' = Py_INCREF(Append(objects,
                                       Object("Strs", objects[self].parent,
                                              objects[self].buffer)),
                                objects[self].parent)
        /\ UNCHANGED calls

\* The program lets go of one of its references (del, end of scope)
Release ==
    \E o \in DOMAIN objects :
        /\ Held(o)
        /\ objects[o].kind = "module" => objects[o].held > 1
        /\ objects' = Py_DECREF([objects EXCEPT ![o].held = @ - 1], o)
        /\ UNCHANGED calls

NextOwn ==
    \/ NewBytes \/ StrInit \/ StrSubscript \/ PartitionFound \/ PartitionNotFound
    \/ SplitOwn \/ GetitemOwn \/ SubscriptOwn \/ Release

SpecOwn == InitOwn /\ [][NextOwn]_vars

\* ---------------------------------------------------------- lifetime claims
IsView(o) == objects[o].kind \in {"Str", "Strs"} /\ objects[o].buffer # NULL

\* C1: whatever views and collections are made, sliced, partitioned, split,
\* indexed and destroyed, the host object whose bytes a live view or
\* collection reads is alive: its bytes are not released.
C1_BuffersOutliveViews ==
    \A o \in DOMAIN objects :
        (objects[o].alive /\ IsView(o)) => objects[objects[o].buffer].alive

\* ------------------------------------------------------------ split claims
\* The bytes of the parts of a collection, in index order
PartTexts(c) == [n \in 1..c.count |-> PartBytes(text, Parts(c)[n])]

\* The parts joined back with sep between neighbours
RECURSIVE Join(_, _)
Join(ss, sep) ==
    IF ss = <<>> THEN <<>>
    ELSE IF Len(ss) = 1 THEN ss[1]
    ELSE ss[1] \o sep \o Join(Tail(ss), sep)

\* Left-to-right non-overlapping occurrences of sep in txt from offset from,
\* as the offsets where they begin
RECURSIVE Occurrences(_, _, _)
Occurrences(txt, sep, from) ==
    LET hits == {p \in from..(Len(txt) - Len(sep)) : SubSeq(txt, p + 1, p + Len(sep)) = sep}
    IN IF hits = {} THEN <<>>
       ELSE <<Min(hits)>> \o Occurrences(txt, sep, Min(hits) + Len(sep))

Unbounded(maxsplit) == maxsplit \in {-1, PY_SSIZE_T_MAX}

SplitReturned == op.name = "split" /\ ret.outcome = "strs"

\* What the parts of a split put back together give
Reassembled(c) ==
    IF op.keepseparator THEN Concat(PartTexts(c)) ELSE Join(PartTexts(c), separator)

\* C2: with unbounded maxsplit and a non-empty separator, the parts of
\* split(text, sep) joined with sep (keepseparator false), or concatenated
\* (keepseparator true), give back exactly the source text.
C2_SplitReassembles ==
    (SplitReturned /\ Unbounded(op.maxsplit)) => Reassembled(strs[1]) = text

C2_Witness ==
    /\ SplitReturned /\ Unbounded(op.maxsplit)
    /\ strs[1].count >= 3
    /\ \E n \in 1..strs[1].count : Parts(strs[1])[n].length > 0
    /\ Reassembled(strs[1]) = text

\* C3: split with maxsplit = N >= 0 returns min(N, separator occurrences) + 1
\* parts that cover the whole source: the last part is the unsplit
\* remainder, and maxsplit = 0 returns the source as the one part.
C3_MaxsplitKeepsRemainder ==
    (SplitReturned /\ op.maxsplit >= 0) =>
        /\ strs[1].count =
              Min({op.maxsplit, Len(Occurrences(text, separator, 0))}) + 1
        /\ Reassembled(strs[1]) = text
        /\ op.maxsplit = 0 => PartTexts(strs[1]) = <<text>>

ConsecutiveLayouts == {"STRS_CONSECUTIVE_32", "STRS_CONSECUTIVE_64"}

Range(s) == {s[n] : n \in DOMAIN s}

\* b holds the elements of a, each as many times
IsRearrangement(a, b) ==
    /\ Len(a) = Len(b)
    /\ \A x \in Range(a) \cup Range(b) :
          Cardinality({n \in DOMAIN a : a[n] = x}) = Cardinality({n \in DOMAIN b : b[n] = x})

\* C5: the layout conversion keeps the count and the owner, and part i of
\* the reordered collection has the start and length that the consecutive
\* accessor reported for part i before the conversion.  order() converts
\* and leaves the parts in place; sort() and shuffle() convert and then
\* rearrange the converted parts.
C5_ConversionKeepsParts ==
    [][(op'.layout \in ConsecutiveLayouts /\ strs'[1].type = "STRS_REORDERED") =>
          /\ strs'[1].count = strs[1].count
          /\ strs'[1].parent = strs[1].parent
          /\ op'.name = "order" => strs'[1].parts = Parts(strs[1])
          /\ op'.name \in {"sort", "shuffle"} =>
                IsRearrangement(strs'[1].parts, Parts(strs[1]))]_vars

C5_Witness ==
    /\ op.name = "order" /\ op.layout = "STRS_CONSECUTIVE_64" /\ ret.outcome = "tuple"
    /\ strs[1].type = "STRS_REORDERED"
    /\ strs[1].count = 2
    /\ Len(separator) = 1 /\ ~(\E n \in 1..2 : strs[1].parts[n].length = 0)
    /\ strs[1].parts[1].start + strs[1].parts[1].length + 1 = strs[1].parts[2].start

\* C6: coll[start:stop] with 0 <= start < stop <= count has stop - start
\* parts, and its part i is part start + i of coll, start and length alike,
\* in every layout and also when stop < count.
C6_SliceKeepsParts ==
    [][(op'.name = "subscript" /\ ret'.outcome = "strs" /\ op'.mem = "none"
        /\ op'.start < op'.stop) =>
          /\ strs'[1].count = op'.stop - op'.start
          /\ \A i \in 0..(op'.stop - op'.start - 1) :
                At(Parts(strs'[1]), i) = At(Parts(strs[1]), op'.start + i)]_vars

\* ------------------------------------------------ permutation engine claims
IsSorted(c) ==
    \A n \in 1..(c.count - 1) : LexLessEq(PartTexts(c)[n], PartTexts(c)[n + 1])

\* C7: after sort(reverse = false) the parts are a rearrangement of the
\* parts before the call and each part is <= its successor in the
\* byte-lexicographic order.
C7_SortSorts ==
    [][(op'.name = "sort" /\ ~op'.reverse /\ ret'.outcome = "none") =>
          /\ IsRearrangement(Parts(strs'[1]), Parts(strs[1]))
          /\ IsSorted(strs'[1])]_vars

C7_Witness ==
    /\ op.name = "sort" /\ ~op.reverse /\ ret.outcome = "none"
    /\ strs[1].count = 3
    /\ IsSorted(strs[1])
    /\ strs[1].parts[1].start > strs[1].parts[2].start
    /\ strs[1].parts[3].start < strs[1].parts[2].start

IsBijection(value, count) ==
    /\ Len(value) = count
    /\ \A i \in 0..(count - 1) : Cardinality({n \in DOMAIN value : value[n] = i}) = 1

\* C8: order() returns a sequence of count indices in which every index of
\* [0, count) occurs exactly once, for either value of reverse and for every
\* count >= 0.
C8_OrderIsBijection ==
    (op.name = "order" /\ op.mem = "none") =>
        /\ ret.outcome = "tuple"
        /\ IsBijection(ret.value, strs[1].count)

\* C9: order() leaves the count of the collection and the start and length
\* of every part as they were, in every layout the collection can be in.
C9_OrderKeepsParts ==
    [][(op'.name = "order" /\ ret'.outcome # "crash") =>
          /\ Strs_len(strs'[1]) = Strs_len(strs[1])
          /\ Parts(strs'[1]) = Parts(strs[1])]_vars

C9_Witness ==
    /\ op.name = "order" /\ op.layout \in ConsecutiveLayouts /\ ret.outcome = "tuple"
    /\ strs[1].count = 3
    /\ ret.value = <<2, 0, 1>>

NoTies(c) == \A m, n \in 1..c.count : m # n => PartTexts(c)[m] # PartTexts(c)[n]

\* C10: on the same collection, the sequence of order(reverse = true) is
\* the sequence of order(reverse = false) reversed; when no two parts are
\* equal, the parts after sort(reverse = true) are the parts after
\* sort(reverse = false) in reverse.
C10_ReverseMirrors ==
    (strs # <<>> /\ Running) =>
        \A ties \in TieRules :
            LET fwd == Strs_order(text, strs[1], temporary_memory, ties, FALSE, "none")
                bwd == Strs_order(text, strs[1], temporary_memory, ties, TRUE, "none")
            IN /\ fwd.outcome = "tuple" /\ bwd.outcome = "tuple"
               /\ bwd.value = Reverse(fwd.value)
               /\ NoTies(strs[1]) =>
                     Strs_sort(text, strs[1], temporary_memory, ties, TRUE, "none").strs.parts
                     = Reverse(Strs_sort(text, strs[1], temporary_memory, ties, FALSE,
                                         "none").strs.parts)

\* C11: a sort() that follows a sort() with the same reverse flag returns
\* and leaves the sequence of the contents of the parts as it was.
C11_SortIdempotent ==
    [][(op.name = "sort" /\ ret.outcome = "none"
        /\ op'.name = "sort" /\ op'.reverse = op.reverse) =>
          /\ ret'.outcome = "none"
          /\ PartTexts(strs'[1]) = PartTexts(strs[1])]_vars

C11_Witness ==
    /\ op.name = "sort" /\ op.reverse /\ op.layout = "STRS_REORDERED"
    /\ ret.outcome = "none"
    /\ strs[1].count = 3
    /\ IsSorted([strs[1] EXCEPT !.parts = Reverse(@)])
    /\ PartTexts(strs[1])[1] # PartTexts(strs[1])[3]

\* C12: shuffle() leaves the count of the collection as it was and its parts
\* (start and length) a rearrangement of the parts before the call, whatever
\* rand() draws, from every layout and whether or not the call succeeds.
C12_ShuffleKeepsParts ==
    [][(op'.name = "shuffle" /\ ret'.outcome # "crash") =>
          /\ Strs_len(strs'[1]) = Strs_len(strs[1])
          /\ \A after \in {Parts(strs'[1])}, before \in {Parts(strs[1])} :
                IsRearrangement(after, before)]_vars

C12_Witness ==
    /\ op.name = "shuffle" /\ op.layout \in ConsecutiveLayouts /\ ret.outcome = "none"
    /\ strs[1].count = 3
    /\ strs[1].parts[2].start < strs[1].parts[1].start
    /\ strs[1].parts[1].start < strs[1].parts[3].start

\* ------------------------------------------------------- indexing claims
\* C13: on a collection of n parts, an index i of [-n, 0) returns the view
\* that index i + n returns; an index i >= n or i < -n gives an IndexError,
\* no view, and takes no reference on the owner.
C13_NegativeIndexWraps ==
    (op.name = "getitem") =>
        LET n == Strs_len(strs[1])
            i == op.start
        IN /\ (i \in (-n)..(-1) /\ op.mem = "none") =>
                 /\ ret.outcome = "view"
                 /\ ret.value = Strs_getitem(strs[1], i + n, TRUE).view
                 /\ ret.value[1] = [parent |-> strs[1].parent,
                                     start |-> At(Parts(strs[1]), i + n).start,
                                     length |-> At(Parts(strs[1]), i + n).length]
           /\ (i >= n \/ i < -n) =>
                 /\ ret = Outcome("error", "IndexError", <<>>)
                 /\ increfs = 0

C13_Witness ==
    /\ op.name = "getitem" /\ op.start = -1
    /\ strs[1].count = 3
    /\ ret.outcome = "view"
    /\ ret.value[1].start = 2 /\ ret.value[1].length = 1

\* C14: for a view s and slice bounds a, b of any sign and order, s[a:b]
\* starts at s.start plus the normalized start, its length is
\* max(0, stop - start) of the normalized bounds, and its bytes lie inside
\* the bytes of s, hence inside the buffer.
C14_SliceInsideView ==
    [][(op'.name = "str_subscript" /\ ret'.outcome = "view") =>
          LET s == ret.value[1]
              v == ret'.value[1]
              n == PySlice_AdjustIndices(s.length, op'.start, op'.stop)
          IN /\ v.start = s.start + n.start
             /\ v.length = Max({0, n.stop - n.start})
             /\ s.start <= v.start
             /\ v.start + v.length <= s.start + s.length
             /\ 0 <= v.start /\ v.start + v.length <= Len(text)]_vars

\* The live views and collections whose parent field points to o
Referrers(o) == {v \in DOMAIN objects : objects[v].alive /\ objects[v].parent = o}

\* C15: a view or collection gives the reference it took on its owner back
\* when it is destroyed: the reference count of a live object is the number
\* of references the program holds plus the number of live views and
\* collections that refer to it, so that it is back to what the program
\* holds once they are all destroyed (collections made by split and by
\* slicing included).
C15_ReferencesGivenBack ==
    \A o \in DOMAIN objects :
        objects[o].alive => objects[o].refs = objects[o].held + Cardinality(Referrers(o))

\* ---------------------------------------------------------- layout claims
Reordering == {"sort", "order", "shuffle"}

\* C16: a reordered collection stays reordered under every later sort,
\* order, shuffle, indexing and slicing, and the tag of a consecutive
\* collection changes only in a sort, order or shuffle, to reordered, and
\* changes in each of them whose conversion is not refused memory.
C16_LayoutOneWay ==
    [][(strs # <<>> /\ strs' # <<>>) =>
          /\ strs[1].type = "STRS_REORDERED" => strs'[1].type = "STRS_REORDERED"
          /\ strs'[1].type # strs[1].type =>
                /\ op'.name \in Reordering
                /\ strs'[1].type = "STRS_REORDERED"
          /\ (op'.name \in Reordering /\ op'.mem # "parts") =>
                strs'[1].type = "STRS_REORDERED"]_vars

C16_Witness ==
    /\ op.name = "subscript" /\ op.layout = "STRS_REORDERED" /\ ret.outcome = "strs"
    /\ op.start = 1 /\ op.stop = 3
    /\ strs[1].type = "STRS_REORDERED" /\ strs[1].count = 2

\* C17: when the allocation of the parts array fails in the layout
\* conversion, the conversion reports failure and the collection is as it
\* was: tag, count, owner, start and end_offsets array; the same holds of the
\* sort, order or shuffle that asked for the conversion.
C17_FailedConversionKeepsAll ==
    [][/\ (strs # <<>> /\ strs[1].type \in ConsecutiveLayouts) =>
             LET prep == prepare_strings_for_reordering(strs[1], FALSE)
             IN ~prep.ok /\ prep.error = "MemoryError" /\ prep.strs = strs[1]
       /\ (op'.name \in Reordering /\ op'.mem = "parts") =>
             /\ ret'.outcome = "error"
             /\ strs' = strs]_vars

C17_Witness ==
    /\ op.name = "sort" /\ op.mem = "parts" /\ ret.outcome = "error"
    /\ strs[1].type = "STRS_CONSECUTIVE_32"
    /\ strs[1].count = 3 /\ strs[1].separator_length = 1
    /\ ~strs[1].array_null

\* ------------------------------------------------- allocation failure claims
\* C18: when growing the offset buffer fails, at whichever iteration, split
\* returns a MemoryError and no collection, the offset buffer built so far
\* and the result object are released, and no reference was taken on the
\* source object.
C18_SplitOutOfMemory ==
    (op.name = "split") =>
        /\ op.mem = "offsets" =>
              /\ ret = Outcome("error", "MemoryError", <<>>)
              /\ strs = <<>>
              /\ increfs = 0
        /\ \A failAt \in 0..(MaxLen + 1) :
              LET got == Str_split_("text", text, 0, Len(text), separator,
                                    op.keepseparator, op.maxsplit, failAt)
              IN got.oom =>
                    /\ got.increfs = 0
                    /\ got.allocated = [result |-> FALSE, offsets |-> FALSE]

C18_Witness ==
    /\ op.name = "split" /\ op.mem = "offsets"
    /\ ret.outcome = "error"
    /\ Str_split_("text", text, 0, Len(text), separator, op.keepseparator,
                  op.maxsplit, 2).oom
    /\ Str_split_("text", text, 0, Len(text), separator, op.keepseparator,
                  op.maxsplit, 2).iterations = 2

\* C19: when the allocation made by the layout conversion fails inside
\* sort(), order() or shuffle(), the caller gets a MemoryError, not the
\* TypeError of the logic errors.
C19_ConversionFailureIsMemoryError ==
    (op.name \in Reordering /\ op.mem = "parts") =>
        /\ ret.outcome = "error"
        /\ ret.error = "MemoryError"

\* C20: when the allocation of the result object, of the rebased offsets or
\* of the copied parts fails in coll[i] or coll[a:b], the call returns a
\* MemoryError and no object, and nothing is read or written through the
\* null pointer (the call does not crash).
C20_FailedAllocationReturnsError ==
    (op.name \in {"getitem", "subscript"} /\ op.mem # "none"
     /\ ret.error # "IndexError") =>
        ret = Outcome("error", "MemoryError", <<>>)

\* ------------------------------------------------------ edge case claims
\* C21: sort() with either value of reverse on a collection of 0 or 1 parts
\* returns, leaves the parts as they were, and makes no access outside
\* [0, count) of the order or parts arrays (the call does not crash).
C21_SortOfFewParts ==
    [][(op'.name = "sort" /\ op'.mem = "none" /\ Strs_len(strs[1]) <= 1) =>
          /\ ret'.outcome = "none"
          /\ Parts(strs'[1]) = Parts(strs[1])]_vars

\* ------------------------------------------------------- sharing claims
\* C22: no two collections share an offset or parts array: with
\* B = A[start:stop] made in any layout of A, a sort, order (layout
\* conversion) or shuffle of one of A and B leaves the count and the
\* sequence of parts of the other as they were.
C22_NoSharedArray ==
    [][(Len(strs) = 2 /\ op'.name \in Reordering) =>
          /\ objects'[1].block # objects'[2].block
          /\ \A j \in {1, 2} \ {op'.start} :
                /\ Strs_len(strs'[j]) = Strs_len(strs[j])
                /\ Parts(strs'[j]) = Parts(strs[j])]_vars

C22_Witness ==
    /\ Len(strs) = 2
    /\ op.name = "sort" /\ op.start = 1 /\ op.layout = "STRS_REORDERED"
    /\ ret.outcome = "none"
    /\ strs[2].type = "STRS_REORDERED" /\ strs[2].count = 2
    /\ strs[1].count = 3
    /\ strs[2].parts # SubSeq(strs[1].parts, 1, 2)
    /\ strs[2].parts # SubSeq(strs[1].parts, 2, 3)

\* ------------------------------------------------------- offset claims
\* The length of part i of consecutive collection c before it is stored in
\* a size_t
UnwrappedLength(c, i) ==
    At(c.end_offsets, i) - (IF i = 0 THEN 0 ELSE At(c.end_offsets, i - 1))
    - c.separator_length * (IF i + 1 # c.count THEN 1 ELSE 0)

\* C23: in every consecutive collection made by split or by slicing a
\* consecutive collection the end offsets are non-decreasing, each lies in
\* [0, number of bytes from the start of the collection to the end of the
\* text], and the length of every part is non-negative before it is stored,
\* so that the stored length is that length and not a wrapped one.
C23_OffsetsInRange ==
    (strs # <<>> /\ strs[1].type \in ConsecutiveLayouts) =>
        LET c == strs[1]
        IN /\ Len(c.end_offsets) = c.count
           /\ \A i \in 0..(c.count - 1) :
                 /\ i > 0 => At(c.end_offsets, i - 1) <= At(c.end_offsets, i)
                 /\ At(c.end_offsets, i) \in 0..(Len(text) - c.start)
                 /\ UnwrappedLength(c, i) >= 0
                 /\ At(Parts(c), i).length = UnwrappedLength(c, i)

C23_Witness ==
    /\ op.name = "subscript" /\ op.start = 1 /\ op.stop = 3 /\ ret.outcome = "strs"
    /\ strs[1].type = "STRS_CONSECUTIVE_32"
    /\ strs[1].separator_length = 1
    /\ strs[1].start = 1
    /\ strs[1].end_offsets = <<1, 1>>

\* ---------------------------------------------------- apply_order claim
\* C24: for every array of n parts and every order that is a permutation of
\* [0, n), apply_order ends with slot i of the array holding what slot
\* order[i] held, has written every slot that is not a fixed point of the
\* order once and no other slot, and leaves the order the identity.
C24_ApplyOrderPermutes ==
    [][(op'.name = "apply_order") =>
          LET n == strs[1].count
              old == strs[1].parts
              order == ret.value
              got == apply_order(old, order, n)
          IN /\ strs'[1].parts = got.array
             /\ ret'.value = got.order
             /\ \A i \in 0..(n - 1) :
                   /\ At(got.array, i) = At(old, At(order, i))
                   /\ At(got.order, i) = i
                   /\ At(got.writes, i) = (IF At(order, i) = i THEN 0 ELSE 1)]_vars

C24_Witness ==
    /\ op.name = "apply_order"
    /\ strs[1].count = 3
    /\ strs[1].parts = <<[start |-> 1, length |-> 1], [start |-> 2, length |-> 1],
                         [start |-> 0, length |-> 1]>>
    /\ ret.value = <<0, 1, 2>>

\* ---------------------------------------------------- termination claim
\* C25: for every text, every separator of one byte or more and every
\* maxsplit the split loop is left: each iteration moves the cursor forward
\* by the separator length at least, there are at most length(text) + 1
\* iterations, and when the loop is left the cursor is past the end of the
\* text or the split budget is used up.
C25_SplitLoopTerminates ==
    /\ <>(ret.outcome # "running")
    /\ [][(op'.start # op.start \/ op'.stop # op.stop) =>
             /\ op'.start >= op.start + Len(separator)
             /\ op'.start > op.start
             /\ op'.stop = op.stop + 1]_vars
    /\ [](op.stop <= Len(text) + 1)
    /\ [](ret.outcome = "strs" =>
             /\ op.start > Len(text) \/ op.stop = ToSize(op.maxsplit)
             /\ strs[1].count = op.stop)

C25_Witness ==
    /\ ret.outcome = "strs"
    /\ op.stop = Len(text) + 1 /\ Len(text) = MaxLen
    /\ op.start > Len(text)

\* ------------------------------------------------------- empty sub-ranges
\* C26: slicing a collection of any layout and any count with bounds that
\* normalize to stop <= start (start = count and start > stop included)
\* returns an empty collection of the same layout, and reads or writes no
\* element outside [0, count) of the source array nor outside the array of
\* the result.
C26_EmptySliceIsEmpty ==
    [][(op'.name = "subscript" /\ op'.mem = "none" /\ op'.stop <= op'.start) =>
          /\ ret' = Outcome("strs", "none", <<>>)
          /\ strs'[1].count = 0
          /\ strs'[1].type = strs[1].type
          /\ ~Strs_subscript(strs[1], op'.start, op'.stop, "none").oob]_vars

\* ------------------------------------------------------- shuffle indices
\* The pairs <<i, j>> swapped by the loop of Strs_shuffle on count parts when
\* rand() returns draw[i] at i: i runs from count - 1 down to 1 and
\* j = draw[i] % (i + 1)
ShuffleSwaps(count, draw) == {<<i, draw[i] % (i + 1)>> : i \in 1..(count - 1)}

\* C27: for every count >= 0, every swap made by shuffle() has
\* 0 <= j <= i < count, and shuffle() of 0 or 1 parts makes no swap, returns
\* and leaves the collection as it was.
C27_ShuffleIndicesInRange ==
    [][(op'.name = "shuffle" /\ op'.mem = "none") =>
          \A count \in {Strs_len(strs[1])} :
             /\ ret'.outcome = "none"
             /\ \A draw \in [1..(count - 1) -> 0..MaxLen] :
                   \A swap \in ShuffleSwaps(count, draw) :
                      0 <= swap[2] /\ swap[2] <= swap[1] /\ swap[1] < count
             /\ count <= 1 =>
                   /\ ShuffleSwaps(count, <<>>) = {}
                   /\ Parts(strs'[1]) = Parts(strs[1])]_vars

\* ------------------------------------------------- scratch buffer claim
\* C28: after any sequence of sort, order and distance calls, those in which
\* growing the scratch buffer fails included, the recorded length of the
\* scratch buffer does not exceed the size of the block its start points to
\* (a null start has length 0); hence a sort, order or distance call in
\* which no allocation fails does not report MemoryError because of an
\* earlier failure.
C28_ScratchConsistent ==
    /\ [](/\ temporary_memory.length <= temporary_memory.size
          /\ temporary_memory.start = "NULL" => temporary_memory.length = 0)
    /\ [][(op'.name \in {"sort", "order", "distance"} /\ op'.mem = "none") =>
             ret'.error # "MemoryError"]_vars

C30_PartitionCoversRange ==
    (op.name \in {"partition", "rpartition"} /\ ret.outcome = "tuple") =>
        LET range == sz_ssize_clamp_interval(Len(text), op.start, op.stop)
            match == IF op.name = "partition"
                     THEN sz_find(text, range.offset, range.length, separator)
                     ELSE sz_rfind(text, range.offset, range.length, separator)
            v == ret.value
        IN /\ \A k \in 1..3 :
                 /\ v[k].length <= PY_SSIZE_T_MAX
                 /\ 0 <= v[k].start /\ v[k].start + v[k].length <= Len(text)
           /\ v[2].start = match /\ v[2].length = Len(separator)
           /\ BytesOf(text, v[2].start, v[2].length) = separator
           /\ BytesOf(text, v[1].start, v[1].length)
                \o BytesOf(text, v[2].start, v[2].length)
                \o BytesOf(text, v[3].start, v[3].length)
              = BytesOf(text, range.offset, range.length)

====
